---------------------------- MODULE Spec2Model ----------------------------
(***************************************************************************)
(* budapest-market: the two scrapers of src/Python.                        *)
(*                                                                         *)
(*   GetUrls.py            the Listing-URL Collector  (SpecCollector)      *)
(*   ExtractDataFromUrl.py the Detail-Field Extractor (SpecExtractor)      *)
(*                                                                         *)
(* A Python str is a sequence of one-character strings, None is NoneVal,   *)
(* and re.search is computed by a backtracking matcher over patterns that  *)
(* are sequences of quantified character classes (all the patterns of the  *)
(* two scripts have that shape).                                           *)
(***************************************************************************)
EXTENDS Integers, Sequences, FiniteSets, TLC

VARIABLES input, idx, outfile, err_count, count, pc, printed

vars == <<input, idx, outfile, err_count, count, pc, printed>>

---------------------------------------------------------------------------
(* Python values *)

\* None, as an optional value: <<>> is None, <<v>> is the value v
NoneVal == <<>>
Some(v) == <<v>>
IsNone(o) == Len(o) = 0
Val(o) == o[1]

\* an exception raised inside an extraction step
Raise == [raised |-> TRUE]
Ok(v) == [raised |-> FALSE, v |-> v]

\* int values 0 and 1 next to str values: tagged, as csv formats them differently
IntV(n) == [t |-> "int", n |-> n, s |-> <<>>]
StrV(s) == [t |-> "str", n |-> 0, s |-> s]
NoneV == [t |-> "none", n |-> 0, s |-> <<>>]


---------------------------------------------------------------------------
(* Character classes of the re module *)

Digit == {"0", "1", "2", "3", "4", "5", "6", "7", "8", "9"}
Upper == {"A", "B", "C", "D", "E", "F", "G", "H", "I", "J", "K", "L", "M",
          "N", "O", "P", "Q", "R", "S", "T", "U", "V", "W", "X", "Y", "Z"}
Lower == {"a", "b", "c", "d", "e", "f", "g", "h", "i", "j", "k", "l", "m",
          "n", "o", "p", "q", "r", "s", "t", "u", "v", "w", "x", "y", "z"}
Space == {" ", "\t", "\n"}
Punct == {"+", ",", ".", "/", "#", "(", ")", "=", "&", "[", "]", ";", "-", ":"}
\* the non-ASCII letters of the pages: e' u" and the superscript two
Accent == {"é", "ü", "²"}
Chars == Digit \cup Upper \cup Lower \cup Space \cup Punct \cup Accent
\* '.' without re.DOTALL: any character but the newline
Dot == Chars \ {"\n"}

\* pattern atoms: a class, taken once, optionally (?), or one or more times (+)
One(cls) == [cls |-> cls, min |-> 1, many |-> FALSE]
Opt(cls) == [cls |-> cls, min |-> 0, many |-> FALSE]
Plus(cls) == [cls |-> cls, min |-> 1, many |-> TRUE]
Lit(c) == One({c})

\* the failed match of a pattern tail (a successful one lists positions >= 1)
Fail == <<0>>

\* number of consecutive characters of s from position i that are in cls
RECURSIVE Run(_, _, _)
Run(cls, s, i) ==
    IF i > Len(s) THEN 0
    ELSE IF s[i] \in cls THEN 1 + Run(cls, s, i + 1) ELSE 0

\* Match atoms k.. of pat against s from position i, greedy with backtracking:
\* atom k first takes the most characters it can, then one less, and so on
\* down to its minimum, until the rest of the pattern matches.
\* The result lists the position after each atom, or is Fail.
RECURSIVE MatchFrom(_, _, _, _), TryTake(_, _, _, _, _)
TryTake(pat, k, s, i, n) ==
    IF n < pat[k].min THEN Fail
    ELSE LET rest == MatchFrom(pat, k + 1, s, i + n)
         IN  IF rest # Fail THEN <<i + n>> \o rest
             ELSE TryTake(pat, k, s, i, n - 1)

MatchFrom(pat, k, s, i) ==
    IF k > Len(pat) THEN <<>>
    ELSE LET run == Run(pat[k].cls, s, i)
         IN  TryTake(pat, k, s, i, IF pat[k].many THEN run ELSE IF run > 0 THEN 1 ELSE 0)

\* re.match object: where the match starts and where each atom ends
NoMatch == [found |-> FALSE, start |-> 0, ends |-> <<>>]

\* regex.search(s): the leftmost position at which the pattern matches
RECURSIVE SearchFrom(_, _, _)
SearchFrom(pat, s, i) ==
    IF i > Len(s) + 1 THEN NoMatch
    ELSE LET m == MatchFrom(pat, 1, s, i)
         IN  IF m # Fail THEN [found |-> TRUE, start |-> i, ends |-> m]
             ELSE SearchFrom(pat, s, i + 1)

Search(pat, s) == SearchFrom(pat, s, 1)

\* regex.search(s) for a pattern that begins with ^ (no re.MULTILINE)
SearchAnchored(pat, s) ==
    LET m == MatchFrom(pat, 1, s, 1)
    IN  IF m = Fail THEN NoMatch ELSE [found |-> TRUE, start |-> 1, ends |-> m]

\* m.group(n) for the group that spans atoms a..b of the pattern
Group(m, s, a, b) ==
    LET from == IF a = 1 THEN m.start ELSE m.ends[a - 1]
    IN  SubSeq(s, from, m.ends[b] - 1)

\* str.replace(old, new), old not empty
RECURSIVE Replace(_, _, _)
Replace(s, old, new) ==
    IF Len(s) < Len(old) THEN s
    ELSE IF SubSeq(s, 1, Len(old)) = old
         THEN new \o Replace(SubSeq(s, Len(old) + 1, Len(s)), old, new)
         ELSE <<Head(s)>> \o Replace(Tail(s), old, new)

\* str(n) for n >= 0
RECURSIVE IntToStr(_)
IntToStr(n) ==
    LET d == <<"0", "1", "2", "3", "4", "5", "6", "7", "8", "9">>[(n % 10) + 1]
    IN  IF n < 10 THEN <<d>> ELSE IntToStr(n \div 10) \o <<d>>

---------------------------------------------------------------------------
(* ExtractDataFromUrl.py: the parsed detail page                           *)
(*                                                                         *)
(* A page is what urlopen and BeautifulSoup give for one URL:              *)
(*   fetchOk  FALSE when urlopen(url).read() or the parser raises          *)
(*   meta     soup.find_all('meta')[4]['content'], NoneVal when the page   *)
(*            has no fifth meta tag or it has no content (IndexError,      *)
(*            KeyError)                                                    *)
(*   title    soup.find('title').string, NoneVal when there is none        *)
(*   texts    the text nodes of the body before the table, in order        *)
(*   mapsrc   str(soup.find_all(src=re.compile("center")))                 *)
(*   listing  the string of <b class="listing-id">, NoneVal without the tag*)
(*   rows     the label cells of the attribute table, in document order,   *)
(*            each with the .string found three elements further           *)
(*            (NoneVal when that element has no single string)             *)
(***************************************************************************)

\* the text nodes soup.find(text=...) walks, in document order. The label
\* cells are left out: none of the fourteen labels contains Ft, m2 or szoba.
RECURSIVE RowStrings(_)
RowStrings(rows) ==
    IF rows = <<>> THEN <<>>
    ELSE Head(rows).value \o RowStrings(Tail(rows))

DocStrings(p) == p.title \o p.texts \o p.listing \o RowStrings(p.rows)

\* soup.find(text=regex): the first text node the pattern is found in, or None
RECURSIVE FirstMatching(_, _)
FirstMatching(strings, pat) ==
    IF strings = <<>> THEN NoneVal
    ELSE IF Search(pat, Head(strings)).found THEN Some(Head(strings))
         ELSE FirstMatching(Tail(strings), pat)

FindText(p, pat) == FirstMatching(DocStrings(p), pat)

\* the compiled patterns, in the order of the script
district_regex == <<Plus(Digit), Lit("."), One(Space), Lit("k"), Lit("e"), Lit("r"),
                    One(Dot), Lit("l"), Lit("e"), Lit("t")>>
varos_regex == <<Lit("("), One(Upper), Plus(Dot), Lit(")")>>
ft_regex == <<Lit("F"), Lit("t")>>
price_regex == <<Plus(Digit), Opt({","}), Plus(Digit)>>
m2_regex == <<Lit("m"), Lit("²")>>
area_regex == <<Plus(Digit)>>
rooms_regex == <<Lit("s"), Lit("z"), Lit("o"), Lit("b"), Lit("a")>>
fullrooms_regex == <<Plus(Digit)>>
halfrooms_regex == <<Lit("+"), Opt(Space), Opt(Digit), Plus(Dot), Lit("f"), Lit("é"), Lit("l")>>
lat_regex == <<Lit("4"), Lit("7"), Lit("."), Plus(Digit), Lit(",")>>
long_regex == <<Lit("1"), Lit("9"), Lit("."), Plus(Digit)>>
bal_regex == <<Plus(Digit), Opt({"."}), Plus(Digit)>>

\* meta = soup.find_all('meta')[4]['content'].replace('\n', '')
ExtractMeta(p) ==
    IF IsNone(p.meta) THEN Raise ELSE Ok(Replace(Val(p.meta), <<"\n">>, <<>>))

ExtractDistrict(meta) ==
    LET m == Search(district_regex, meta)
    IN  IF ~m.found THEN StrV(<<>>) ELSE StrV(Group(m, meta, 1, 6))

ExtractVaros(meta) ==
    LET m == Search(varos_regex, meta)
    IN  IF ~m.found THEN StrV(<<>>) ELSE StrV(Group(m, meta, 2, 3))

\* title = soup.find('title').string.replace('\n', '')
ExtractTitle(p) ==
    IF IsNone(p.title) THEN Raise ELSE Ok(Replace(Val(p.title), <<"\n">>, <<>>))

\* the price left with its decimal comma
PriceOfTextKeepComma(text) ==
    LET m1 == Search(price_regex, text)
    IN  IF ~m1.found THEN Raise ELSE Ok(StrV(Group(m1, text, 1, 3)))

\* the two searches and the two replaces of the price lines
PriceOfText(text) ==
    LET m1 == Search(price_regex, text)
    IN  IF ~m1.found THEN Raise
        ELSE LET p1 == Replace(Group(m1, text, 1, 3), <<" ", "F", "t">>, <<>>)
                 m2 == Search(price_regex, p1)
             IN  IF ~m2.found THEN Raise
                 ELSE Ok(StrV(Replace(Group(m2, p1, 1, 3), <<",">>, <<".">>)))

ExtractPrice(p) ==
    LET node == FindText(p, ft_regex)
    IN  IF IsNone(node) THEN Raise ELSE PriceOfText(Val(node))

ExtractArea(p) ==
    LET node == FindText(p, m2_regex)
    IN  IF IsNone(node) THEN Raise
        ELSE LET m == Search(area_regex, Val(node))
             IN  IF ~m.found THEN Raise ELSE Ok(StrV(Group(m, Val(node), 1, 1)))

\* rooms = soup.find(text=rooms_regex); None makes the next search raise
ExtractRooms(p) ==
    LET node == FindText(p, rooms_regex)
    IN  IF IsNone(node) THEN Raise ELSE Ok(StrV(Val(node)))

FullRooms(rooms) ==
    LET m == SearchAnchored(fullrooms_regex, rooms)
    IN  IF ~m.found THEN IntV(0) ELSE StrV(Group(m, rooms, 1, 1))

HalfRooms(rooms) ==
    LET m == Search(halfrooms_regex, rooms)
    IN  IF ~m.found THEN IntV(0)
        ELSE IF Group(m, rooms, 2, 2) = <<>> THEN IntV(1)
        ELSE StrV(Group(m, rooms, 3, 3))

ExtractLat(p) ==
    LET m == Search(lat_regex, p.mapsrc)
    IN  IF ~m.found THEN Raise ELSE Ok(StrV(Group(m, p.mapsrc, 1, 4)))

ExtractLong(p) ==
    LET m == Search(long_regex, p.mapsrc)
    IN  IF ~m.found THEN Raise ELSE Ok(StrV(Group(m, p.mapsrc, 1, 4)))

\* a missing listing-id element taken as an empty field
ExtractListingOrNone(p) ==
    IF IsNone(p.listing) THEN Ok(NoneV) ELSE Ok(StrV(Val(p.listing)))

\* listing = soup.find('b', class_="listing-id").string
ExtractListing(p) ==
    IF IsNone(p.listing) THEN Raise ELSE Ok(StrV(Val(p.listing)))

\* td.next_element.next_element.next_element.string
TdString(td) == IF IsNone(td.value) THEN NoneV ELSE StrV(Val(td.value))

\* the Erkely branch: bal_regex.search(None) raises
Balcony(td) ==
    IF IsNone(td.value) THEN Raise
    ELSE LET m == Search(bal_regex, Val(td.value))
         IN  IF ~m.found THEN Ok(IntV(0))
             ELSE Ok(StrV(Group(m, Val(td.value), 1, 3)))

\* the label each elif compares td.string with, and the variable it sets
\* (the double-acute letters of Futés, Fürdo and Tetotér are written with u and o)
LabelVar ==
    [l \in {"Ingatlan állapota", "Emelet", "Épület szintjei", "Lift", "Belmagasság",
            "Futés", "Légkondicionáló", "Fürdo és WC", "Tájolás", "Kilátás",
            "Parkolás", "Tetotér", "Komfort"} |->
        CASE l = "Ingatlan állapota" -> "condition"
          [] l = "Emelet" -> "floor"
          [] l = "Épület szintjei" -> "storeys"
          [] l = "Lift" -> "lift"
          [] l = "Belmagasság" -> "ceiling"
          [] l = "Futés" -> "heating"
          [] l = "Légkondicionáló" -> "aircon"
          [] l = "Fürdo és WC" -> "bathtoil"
          [] l = "Tájolás" -> "orient"
          [] l = "Kilátás" -> "view"
          [] l = "Parkolás" -> "parking"
          [] l = "Tetotér" -> "garcess"
          [] l = "Komfort" -> "utility"]

BalconyLabel == "Erkély"

\* the fourteen variables before the loop over the td elements
AttrDefaults ==
    [f \in {"condition", "floor", "storeys", "lift", "ceiling", "heating", "aircon",
            "bathtoil", "orient", "view", "balcony", "parking", "garcess", "utility"}
        |-> StrV(<<>>)]

\* for td in soup.find_all('td'): a later row with the same label overwrites
RECURSIVE AttrLoop(_, _, _)
AttrLoop(rows, k, a) ==
    IF k > Len(rows) THEN Ok(a)
    ELSE LET td == rows[k]
         IN  IF td.label = BalconyLabel
             THEN (IF Balcony(td).raised THEN Raise
                   ELSE AttrLoop(rows, k + 1, [a EXCEPT !["balcony"] = Balcony(td).v]))
             ELSE IF td.label \in DOMAIN LabelVar
             THEN AttrLoop(rows, k + 1, [a EXCEPT ![LabelVar[td.label]] = TdString(td)])
             ELSE AttrLoop(rows, k + 1, a)

\* a table without its Lift row raising
ExtractAttributesStrict(p) ==
    IF \E k \in 1..Len(p.rows) : p.rows[k].label = "Lift"
    THEN AttrLoop(p.rows, 1, AttrDefaults)
    ELSE Raise

ExtractAttributes(p) == AttrLoop(p.rows, 1, AttrDefaults)

\* the list built in the order of the data model instead
ValuesDataModel(v) ==
    <<v.listing, v.price, v.area, v.fullrooms, v.halfrooms, v.district, v.varos,
      v.attr["condition"], v.attr["floor"], v.attr["storeys"], v.attr["lift"],
      v.attr["heating"], v.attr["view"], v.attr["orient"], v.attr["parking"],
      v.attr["balcony"], v.attr["aircon"], v.attr["ceiling"], v.attr["utility"],
      v.attr["bathtoil"], v.attr["garcess"], v.lat, v.long>>

\* values = [[listing, price, area, rooms, ...]]: the row handed to the writer
Values(v) ==
    <<v.listing, v.price, v.area, v.rooms, v.fullrooms, v.halfrooms, v.district,
      v.varos, v.attr["condition"], v.attr["floor"], v.attr["storeys"], v.attr["lift"],
      v.attr["heating"], v.attr["view"], v.lat, v.long, v.attr["orient"],
      v.attr["parking"], v.attr["balcony"], v.attr["aircon"], v.attr["ceiling"],
      v.attr["utility"], v.attr["bathtoil"], v.attr["garcess"]>>

\* The body of the try block after the fetch, lines 26-148: the first statement
\* that raises ends it; otherwise the list of values.
Extract(p) ==
    LET meta == ExtractMeta(p)
        title == ExtractTitle(p)
        price == ExtractPrice(p)
        area == ExtractArea(p)
        rooms == ExtractRooms(p)
        lat == ExtractLat(p)
        long == ExtractLong(p)
        listing == ExtractListing(p)
        attr == ExtractAttributes(p)
    IN  IF meta.raised \/ title.raised \/ price.raised \/ area.raised \/ rooms.raised
           \/ lat.raised \/ long.raised \/ listing.raised \/ attr.raised
        THEN Raise
        ELSE Ok(Values([listing |-> listing.v,
                        price |-> price.v,
                        area |-> area.v,
                        rooms |-> rooms.v,
                        fullrooms |-> FullRooms(rooms.v.s),
                        halfrooms |-> HalfRooms(rooms.v.s),
                        district |-> ExtractDistrict(meta.v),
                        varos |-> ExtractVaros(meta.v),
                        lat |-> lat.v,
                        long |-> long.v,
                        attr |-> attr.v]))

\* csv.writer turns each value into text: None is '', an int its digits
CsvField(v) ==
    CASE v.t = "none" -> <<>>
      [] v.t = "int" -> IntToStr(v.n)
      [] v.t = "str" -> v.s

CsvRow(values) == [k \in 1..Len(values) |-> CsvField(values[k])]

\* the row put before the rows already written
WriteRowsFront(file, values) == <<CsvRow(values)>> \o file

\* writer.writerows(values): one more row at the end of the output file
WriteRows(file, values) == Append(file, CsvRow(values))

---------------------------------------------------------------------------
(* ExtractDataFromUrl.py: the run.  input is the URL file (each URL stands *)
(* for the page it serves), idx the number of lines the for loop has taken,*)
(* outfile the rows written, printed what the last line of the script      *)
(* prints (NoneVal before it).                                             *)

\* for url in urls: the next line of the file
HasNext == pc = "loop" /\ idx < Len(input)
NextItem == input[idx + 1]
\* what the statements after the fetch give for it
Extracted == Extract(NextItem)

\* urlopen or BeautifulSoup raises: except, err_count + 1, continue
FetchError ==
    /\ HasNext
    /\ ~NextItem.fetchOk
    /\ err_count' = err_count + 1
    /\ idx' = idx + 1
    /\ UNCHANGED <<input, outfile, count, pc, printed>>

\* a statement of the extraction raises: the same except clause
ExtractError ==
    /\ HasNext
    /\ NextItem.fetchOk
    /\ Extracted.raised
    /\ err_count' = err_count + 1
    /\ idx' = idx + 1
    /\ UNCHANGED <<input, outfile, count, pc, printed>>

\* the try block runs to its end: the row is written, count + 1
WriteRecord ==
    /\ HasNext
    /\ NextItem.fetchOk
    /\ ~Extracted.raised
    /\ outfile' = WriteRows(outfile, Extracted.v)
    /\ count' = count + 1
    /\ idx' = idx + 1
    /\ UNCHANGED <<input, err_count, pc, printed>>

\* print("Number of errors: ", err_count) after the loop
PrintErrors ==
    /\ pc = "loop"
    /\ idx = Len(input)
    /\ printed' = Some(err_count)
    /\ pc' = "done"
    /\ UNCHANGED <<input, idx, outfile, err_count, count>>

ExtractorNext == FetchError \/ ExtractError \/ WriteRecord \/ PrintErrors

---------------------------------------------------------------------------
(* The pages the runs are checked on *)

MaxUrls == 5
MaxGroups == 3
MaxSpaces == 2
MaxDigits == 2

SeqsOf(S, lo, hi) == UNION {[1..n -> S] : n \in lo..hi}
Spaces(n) == [k \in 1..n |-> " "]

RECURSIVE Flatten(_)
Flatten(ss) == IF ss = <<>> THEN <<>> ELSE Head(ss) \o Flatten(Tail(ss))

\* the strings of ss with one space between them
RECURSIVE JoinSp(_)
JoinSp(ss) ==
    IF Len(ss) <= 1 THEN Flatten(ss) ELSE Head(ss) \o <<" ">> \o JoinSp(Tail(ss))

FtWord == <<"F", "t">>
M2Word == <<"m", "²">>
SzobaWord == <<"s", "z", "o", "b", "a">>
FelWord == <<"f", "é", "l">>

GoodRows ==
    <<[label |-> "Ingatlan állapota", value |-> Some(<<"j", "o">>)],
      [label |-> "Emelet", value |-> Some(<<"2">>)],
      [label |-> "Épület szintjei", value |-> Some(<<"4">>)],
      [label |-> "Lift", value |-> Some(<<"v", "a", "n">>)],
      [label |-> "Belmagasság", value |-> Some(<<"3", " ", "m">>)],
      [label |-> "Futés", value |-> Some(<<"g", "a", "z">>)],
      [label |-> "Légkondicionáló", value |-> Some(<<"n", "i", "n", "c", "s">>)],
      [label |-> "Fürdo és WC", value |-> Some(<<"k", "u", "l", "o", "n">>)],
      [label |-> "Tájolás", value |-> Some(<<"d", "e", "l">>)],
      [label |-> "Kilátás", value |-> Some(<<"u", "t", "c", "a">>)],
      [label |-> "Erkély", value |-> Some(<<"5", ".", "5", " ", "m", "²">>)],
      [label |-> "Parkolás", value |-> Some(<<"u", "d", "v", "a", "r">>)],
      [label |-> "Tetotér", value |-> Some(<<"n", "e", "m">>)],
      [label |-> "Komfort", value |-> Some(<<"o", "s", "s", "z">>)]>>

GoodMeta == <<"6", ".", " ", "k", "e", "r", "ü", "l", "e", "t", " ", "(", "T", "v", ")">>
GoodPrice == <<"3", "1", ",", "9", " ", "M", " ", "F", "t">>
GoodArea == <<"5", "5", " ", "m", "²">>
GoodRooms == <<"3", " ", "+", " ", "1", " ", "f", "é", "l", " ", "s", "z", "o", "b", "a">>
GoodMap == <<"c", "e", "n", "t", "e", "r", "=", "4", "7", ".", "5", ",", "1", "9", ".", "0", "6", "&">>

GoodPage ==
    [fetchOk |-> TRUE,
     meta |-> Some(GoodMeta),
     title |-> Some(<<"l", "a", "k", "a", "s">>),
     texts |-> <<GoodPrice, GoodArea, GoodRooms>>,
     mapsrc |-> GoodMap,
     listing |-> Some(<<"7", "1">>),
     rows |-> GoodRows]

\* a second listing: no table, nothing to find in the meta description
PlainPage ==
    [GoodPage EXCEPT !.meta = Some(<<"B", "u", "d", "a">>),
                     !.texts = <<<<"4", "5", " ", "M", " ", "F", "t">>,
                                 <<"4", "0", " ", "m", "²">>,
                                 <<"2", " ", "s", "z", "o", "b", "a">>>>,
                     !.listing = Some(<<"7", "2">>),
                     !.rows = <<>>]

\* urlopen raises
UnreachablePage == [GoodPage EXCEPT !.fetchOk = FALSE]

\* the pages that lack one thing the straight-line code needs
NoFtPage == [GoodPage EXCEPT !.texts = <<GoodArea, GoodRooms>>]
NoM2Page ==
    [GoodPage EXCEPT !.texts = <<GoodPrice, GoodRooms>>,
                     !.rows = SelectSeq(GoodRows, LAMBDA r : r.label # "Erkély")]
NoSzobaPage == [GoodPage EXCEPT !.texts = <<GoodPrice, GoodArea>>]
NoLatPage == [GoodPage EXCEPT !.mapsrc = <<"1", "9", ".", "0", "6">>]
NoLongPage == [GoodPage EXCEPT !.mapsrc = <<"4", "7", ".", "5", ",">>]
NoMapPage == [GoodPage EXCEPT !.mapsrc = <<"[", "]">>]
NoListingPage == [GoodPage EXCEPT !.listing = NoneVal]
NoMetaPage == [GoodPage EXCEPT !.meta = NoneVal]
NoTitlePage == [GoodPage EXCEPT !.title = NoneVal]

FatalPages ==
    {NoFtPage, NoM2Page, NoSzobaPage, NoLatPage, NoLongPage, NoMapPage,
     NoListingPage, NoMetaPage, NoTitlePage}

\* pages without one row of the table, without the table, with a row whose
\* value has no single string, and with less in the meta description
AllLabels == DOMAIN LabelVar \cup {BalconyLabel}

TolerantPages ==
    {[GoodPage EXCEPT !.rows = SelectSeq(GoodRows, LAMBDA r : r.label # l)] :
        l \in AllLabels}
    \cup {[GoodPage EXCEPT !.rows = [k \in 1..Len(GoodRows) |->
              IF GoodRows[k].label = l THEN [label |-> l, value |-> NoneVal]
              ELSE GoodRows[k]]] : l \in {"Lift", "Erkély"}}
    \cup {[GoodPage EXCEPT !.rows = <<>>]}
    \cup {[GoodPage EXCEPT !.meta = Some(m)] :
            m \in {<<"6", ".", " ", "k", "e", "r", "ü", "l", "e", "t">>,
                   <<"(", "T", "v", ")">>,
                   <<"e", "l", "a", "d", "o">>,
                   <<"6", ".", "k", "e", "r", "ü", "l", "e", "t", " ", "(", "t", "v", ")">>}}

\* price texts: digit groups with one space between them and " Ft" after, and
\* amounts with a comma
GroupSet == {<<"5">>, <<"3", "1">>, <<"9", "0", "0">>, <<"0", "0", "0">>}

GroupedPrices ==
    {JoinSp(gs) \o <<" ">> \o FtWord : gs \in SeqsOf(GroupSet, 1, MaxGroups)}

CommaPrices ==
    {<<"3", "1", ",", "9", " ", "M", " ", "F", "t">>,
     <<"9", ",", "5", " ", "M", " ", "F", "t">>,
     <<"1", ",", "2", "3", "4", ",", "5", "6", "7", " ", "F", "t">>,
     <<"1", " ", "2", "3", "4", ",", "5", " ", "F", "t">>,
     <<"a", "r", ":", " ", "5", ",", " ", "F", "t">>,
     <<"F", "t">>}

PriceTexts == GroupedPrices \cup CommaPrices

PricePages == {[GoodPage EXCEPT !.texts = <<t, GoodArea, GoodRooms>>] : t \in PriceTexts}

\* room texts: N, then nothing or "+", the count M and "fel" with 0..MaxSpaces
\* spaces before M and before "fel", then " szoba"
HalfParts ==
    {<<>>}
    \cup {<<" ", "+">> \o Spaces(a) \o m \o Spaces(b) \o FelWord :
            a \in 0..MaxSpaces, b \in 0..MaxSpaces, m \in {<<>>, <<"1">>, <<"2">>}}

RoomTexts ==
    {n \o h \o <<" ">> \o SzobaWord : n \in {<<>>, <<"3">>, <<"1", "0">>}, h \in HalfParts}

RoomPages == {[GoodPage EXCEPT !.texts = <<GoodPrice, GoodArea, r>>] : r \in RoomTexts}

\* balcony values: an integer, or a decimal with a period, then " m2"; and texts
\* without a number
DigitStrings == SeqsOf({"1", "5"}, 1, MaxDigits)

BalconyValues ==
    {i \o <<" ">> \o M2Word : i \in DigitStrings}
    \cup {i \o <<".">> \o f \o <<" ">> \o M2Word : i \in DigitStrings, f \in DigitStrings}
    \cup {<<"n", "i", "n", "c", "s">>, <<"v", "a", "n">>}

BalconyPages ==
    {[GoodPage EXCEPT !.rows = <<[label |-> "Lift", value |-> Some(<<"v", "a", "n">>)],
                                 [label |-> "Erkély", value |-> Some(b)]>>] :
        b \in BalconyValues}

PagesRun == {GoodPage, PlainPage, UnreachablePage, NoFtPage}

PagesAll ==
    FatalPages \cup TolerantPages \cup PricePages \cup RoomPages \cup BalconyPages

ExtractorInit ==
    /\ input \in SeqsOf(PagesRun, 0, MaxUrls) \cup {<<p>> : p \in PagesAll}
    /\ idx = 0
    /\ outfile = <<>>
    /\ err_count = 0
    /\ count = 1
    /\ pc = "loop"
    /\ printed = NoneVal

SpecExtractor == ExtractorInit /\ [][ExtractorNext]_vars

---------------------------------------------------------------------------
(* GetUrls.py.  input is the sequence of results pages the site serves for *)
(* page 1..npages, each with fetchOk (urlopen and the parser did not       *)
(* raise) and anchors (the href of every <a class="rowclick rowClickCSS">, *)
(* in document order); idx is the loop variable page, outfile the lines    *)
(* written, one URL each.  count is not a variable of this script.         *)

npages == Len(input)

\* the site base the script prefixes, one token
BaseUrl == <<"http://ingatlan.com/">>

href_regex == <<Lit("/"), Plus(Digit), Opt({"#"})>>

\* "http://ingatlan.com/" + regex.search(tag['href']).group(1)
HrefToUrl(href) ==
    LET m == Search(href_regex, href)
    IN  IF ~m.found THEN Raise ELSE Ok(BaseUrl \o Group(m, href, 2, 2))

\* the loop that fills href_list: the first href without a match raises
RECURSIVE BuildHrefList(_)
BuildHrefList(anchors) ==
    IF anchors = <<>> THEN Ok(<<>>)
    ELSE LET u == HrefToUrl(Head(anchors))
             rest == BuildHrefList(Tail(anchors))
         IN  IF u.raised \/ rest.raised THEN Raise ELSE Ok(<<u.v>> \o rest.v)

\* set(href_list)
ToSet(list) == {list[k] : k \in 1..Len(list)}

\* list(set(href_list)): the set in one of its iteration orders
Orders(S) ==
    {f \in [1..Cardinality(S) -> S] : \A x \in S : \E k \in 1..Cardinality(S) : f[k] = x}

\* the list written as built, duplicates kept
KeepAll(list) == {list}

Dedup(list) == Orders(ToSet(list))

\* for href in href_list: writer.writerow([href])
RECURSIVE WriteAll(_, _)
WriteAll(file, list) ==
    IF list = <<>> THEN file
    ELSE WriteAll(Append(file, <<Head(list)>>), Tail(list))

HasNextPage == pc = "loop" /\ idx < npages
NextPage == input[idx + 1]
HrefList == BuildHrefList(NextPage.anchors)

\* the except clause without its count
PageFetchErrorUncounted ==
    /\ HasNextPage
    /\ ~NextPage.fetchOk
    /\ idx' = idx + 1
    /\ UNCHANGED <<input, outfile, err_count, count, pc, printed>>

\* lines 27-33: the fetch or the parser raises
PageFetchError ==
    /\ HasNextPage
    /\ ~NextPage.fetchOk
    /\ err_count' = err_count + 1
    /\ idx' = idx + 1
    /\ UNCHANGED <<input, outfile, count, pc, printed>>

\* lines 36-50: every href matches, the page's URLs are written
PageWrite ==
    /\ HasNextPage
    /\ NextPage.fetchOk
    /\ ~HrefList.raised
    /\ \E order \in Dedup(HrefList.v) : outfile' = WriteAll(outfile, order)
    /\ idx' = idx + 1
    /\ UNCHANGED <<input, err_count, count, pc, printed>>

\* line 42 is outside the try block: regex.search gives None for an href
\* without "/<digits>", .group raises AttributeError and the script ends with
\* a traceback; the with statement closes the file with what was written
PageCrash ==
    /\ HasNextPage
    /\ NextPage.fetchOk
    /\ HrefList.raised
    /\ idx' = idx + 1
    /\ pc' = "crashed"
    /\ UNCHANGED <<input, outfile, err_count, count, printed>>

\* print("Error count =", err_count)
PrintCount ==
    /\ pc = "loop"
    /\ idx = npages
    /\ printed' = Some(err_count)
    /\ pc' = "done"
    /\ UNCHANGED <<input, idx, outfile, err_count, count>>

CollectorNext == PageFetchError \/ PageWrite \/ PageCrash \/ PrintCount

MaxPages == 3
MaxAnchors == 2

\* hrefs of listings 12 (two forms) and 7, and hrefs with no "/<digits>"
Href12 == <<"/", "1", "2">>
Href12b == <<"/", "x", "/", "1", "2", "#", "a">>
Href7 == <<"/", "l", "/", "7">>
GoodHrefs == {Href12, Href12b, Href7}
BadHrefs == {<<"#">>, <<"/", "x">>}

ResultPages ==
    {[fetchOk |-> FALSE, anchors |-> <<>>]}
    \cup {[fetchOk |-> TRUE, anchors |-> a] : a \in SeqsOf(GoodHrefs, 0, MaxAnchors)}
    \cup {[fetchOk |-> TRUE, anchors |-> <<b>>] : b \in BadHrefs}
    \cup {[fetchOk |-> TRUE, anchors |-> <<Href12, b>>] : b \in BadHrefs}

\* the pages that runs of several pages are made of
RunPages ==
    {[fetchOk |-> FALSE, anchors |-> <<>>]}
    \cup {[fetchOk |-> TRUE, anchors |-> a] :
            a \in {<<>>, <<Href12>>, <<Href12, Href12b>>, <<Href7, Href12>>, <<<<"#">>>>}}

CollectorInit ==
    /\ input \in {<<p>> : p \in ResultPages} \cup SeqsOf(RunPages, 2, MaxPages)
    /\ idx = 0
    /\ outfile = <<>>
    /\ err_count = 0
    /\ count = 0
    /\ pc = "loop"
    /\ printed = NoneVal

SpecCollector == CollectorInit /\ [][CollectorNext]_vars

---------------------------------------------------------------------------
(* What the properties below speak of: one pass of a loop, the page it     *)
(* took, and the contents of that page said without the matcher.           *)

Min(S) == CHOOSE x \in S : \A y \in S : x <= y
Max(S) == CHOOSE x \in S : \A y \in S : x >= y
Last(q) == q[Len(q)]

\* the loop takes the next item in this step
Taking == pc = "loop" /\ idx < Len(input) /\ idx' = idx + 1
Item == input[idx + 1]
\* the step adds exactly one row to the output and keeps the rows before it
WroteOne == Len(outfile') = Len(outfile) + 1 /\ SubSeq(outfile', 1, Len(outfile)) = outfile
\* the step is the skip of the except clause
Skipped ==
    /\ outfile' = outfile
    /\ err_count' = err_count + 1
    /\ count' = count
    /\ pc' = "loop"

\* w occurs in s
Contains(s, w) == \E i \in 1..(Len(s) - Len(w) + 1) : SubSeq(s, i, i + Len(w) - 1) = w
AllIn(s, i, j, cls) == \A k \in i..j : s[k] \in cls

\* the first text node of the page that contains w, or NoneVal
FirstTextWith(p, w) ==
    LET ds == DocStrings(p)
        ks == {k \in 1..Len(ds) : Contains(ds[k], w)}
    IN  IF ks = {} THEN NoneVal ELSE Some(ds[Min(ks)])

\* the leftmost, and there the longest, piece s[i..j] that satisfies Form(i, j)
Pieces(s, Form(_, _)) == {ij \in (1..Len(s)) \X (1..Len(s)) : Form(ij[1], ij[2])}
LeftLongest(s, Form(_, _)) ==
    LET ps == Pieces(s, Form)
        i == Min({ij[1] : ij \in ps})
        j == Max({ij[2] : ij \in {q \in ps : q[1] = i}})
    IN  SubSeq(s, i, j)

\* "47." digits "," and "19." digits occur in the map source
HasLat(s) ==
    \E i \in 1..Len(s), j \in 1..Len(s) :
        /\ i + 2 <= Len(s) /\ SubSeq(s, i, i + 2) = <<"4", "7", ".">>
        /\ i + 3 <= j /\ AllIn(s, i + 3, j, Digit)
        /\ j < Len(s) /\ s[j + 1] = ","
HasLong(s) ==
    \E i \in 1..Len(s) :
        /\ i + 2 <= Len(s) /\ SubSeq(s, i, i + 2) = <<"1", "9", ".">>
        /\ i + 3 <= Len(s) /\ s[i + 3] \in Digit

\* the page lacks one of the five fatal fields
LacksFatal(p) ==
    \/ IsNone(FirstTextWith(p, FtWord))
    \/ IsNone(FirstTextWith(p, M2Word))
    \/ IsNone(FirstTextWith(p, SzobaWord))
    \/ ~HasLat(p.mapsrc)
    \/ ~HasLong(p.mapsrc)
    \/ IsNone(p.listing)

\* a URL of the input fails: its fetch does, or a statement after it raises
Fails(p) == ~p.fetchOk \/ Extract(p).raised

RECURSIVE RecordsOf(_)
RecordsOf(urls) ==
    IF urls = <<>> THEN <<>>
    ELSE IF Fails(Head(urls)) THEN RecordsOf(Tail(urls))
         ELSE <<CsvRow(Extract(Head(urls)).v)>> \o RecordsOf(Tail(urls))

NumFailing(urls) == Cardinality({k \in 1..Len(urls) : Fails(urls[k])})

---------------------------------------------------------------------------
(* C1: Extractor, any URL list of length K of which E URLs fail: when the  *)
(* run ends the output holds exactly K - E records, they are the records   *)
(* of the non-failing URLs in their input order, and the error count       *)
(* printed is E.                                                           *)
C1_RunTotals ==
    pc = "done" =>
        /\ Len(outfile) = Len(input) - NumFailing(input)
        /\ outfile = RecordsOf(input)
        /\ printed = Some(NumFailing(input))

\* five URLs, the third unreachable: four records, one error
C1_FiveUrlsThirdFails ==
    /\ pc = "done"
    /\ Len(input) = 5
    /\ ~input[3].fetchOk
    /\ \A k \in {1, 2, 4, 5} : ~Fails(input[k])
    /\ input[1] # input[2]
    /\ outfile = <<CsvRow(Extract(input[1]).v), CsvRow(Extract(input[2]).v),
                   CsvRow(Extract(input[4]).v), CsvRow(Extract(input[5]).v)>>
    /\ printed = Some(1)

(* C2: Extractor, a page that is fetched and parsed but lacks a fatal      *)
(* field (a text with Ft, with m2, with szoba, the latitude or longitude   *)
(* in the map source, the listing-id element): no row is written, the rows *)
(* written so far stay, the error counter goes up by exactly one, as for a *)
(* fetch failure, and the loop goes on with the next URL.                  *)
C2_FatalFieldSkips ==
    [][(Taking /\ (~Item.fetchOk \/ LacksFatal(Item))) => Skipped]_vars

\* a record was written, then a fetched page without a fatal field was skipped
C2_SkippedAfterRecord ==
    /\ pc = "loop"
    /\ idx = 2
    /\ input[2].fetchOk /\ LacksFatal(input[2])
    /\ ~Fails(input[1])
    /\ Len(outfile) = 1
    /\ err_count = 1

---------------------------------------------------------------------------
(* The columns of a written row, by the name of the variable they hold *)

\* the order of the list in lines 144-148
WrittenOrder ==
    <<"listing", "price", "area", "rooms", "fullrooms", "halfrooms", "district",
      "varos", "condition", "floor", "storeys", "lift", "heating", "view", "lat",
      "long", "orient", "parking", "balcony", "aircon", "ceiling", "utility",
      "bathtoil", "garcess">>

\* the order of section 3 of the specification: listing_id, price, area,
\* full_rooms, half_rooms, district, city_area, the fourteen attributes,
\* latitude, longitude
Section3Order ==
    <<"listing", "price", "area", "fullrooms", "halfrooms", "district", "varos",
      "condition", "floor", "storeys", "lift", "heating", "view", "orient",
      "parking", "balcony", "aircon", "ceiling", "utility", "bathtoil", "garcess",
      "lat", "long">>

Col(name) == CHOOSE k \in 1..Len(WrittenOrder) : WrittenOrder[k] = name

LabelOf(name) ==
    IF name = "balcony" THEN BalconyLabel
    ELSE CHOOSE l \in DOMAIN LabelVar : LabelVar[l] = name

RowsWith(p, label) == {k \in 1..Len(p.rows) : p.rows[k].label = label}

\* the text of an attribute of the page: empty without its row, else what the
\* last row with its label holds
AttrText(p, name) ==
    IF RowsWith(p, LabelOf(name)) = {} THEN <<>>
    ELSE LET td == p.rows[Max(RowsWith(p, LabelOf(name)))]
         IN  IF name = "balcony" THEN CsvField(Balcony(td).v)
             ELSE IF IsNone(td.value) THEN <<>> ELSE Val(td.value)

FieldText(p, name) ==
    CASE name = "listing" -> CsvField(ExtractListing(p).v)
      [] name = "price" -> CsvField(ExtractPrice(p).v)
      [] name = "area" -> CsvField(ExtractArea(p).v)
      [] name = "rooms" -> CsvField(ExtractRooms(p).v)
      [] name = "fullrooms" -> CsvField(FullRooms(ExtractRooms(p).v.s))
      [] name = "halfrooms" -> CsvField(HalfRooms(ExtractRooms(p).v.s))
      [] name = "district" -> CsvField(ExtractDistrict(ExtractMeta(p).v))
      [] name = "varos" -> CsvField(ExtractVaros(ExtractMeta(p).v))
      [] name = "lat" -> CsvField(ExtractLat(p).v)
      [] name = "long" -> CsvField(ExtractLong(p).v)
      [] OTHER -> AttrText(p, name)

RowInOrder(p, order) == [k \in 1..Len(order) |-> FieldText(p, order[k])]

(* C4 as stated: every record has the field count and order of section 3,  *)
(* whichever source fields were found.                                      *)
C4_Section3Order ==
    [][(Taking /\ WroteOne) => Last(outfile') = RowInOrder(Item, Section3Order)]_vars

(* C4, order as written: every record has the same 24 fields, in the order  *)
(* of the list the script builds: listing, price, area, the raw room text,  *)
(* fullrooms, halfrooms, district, varos, condition, floor, storeys, lift,  *)
(* heating, view, lat, long, orient, parking, balcony, aircon, ceiling,     *)
(* utility, bathtoil, garcess; a field not found is empty, never left out.  *)
C4_WrittenOrder ==
    [][(Taking /\ WroteOne) => Last(outfile') = RowInOrder(Item, WrittenOrder)]_vars

\* a page with every row of the table, then one without the table: two rows
\* of 24 fields, the second with its attribute fields empty
C4_FullAndBareRows ==
    /\ Len(outfile) = 2
    /\ Len(input[1].rows) = Cardinality(AllLabels)
    /\ input[2].rows = <<>>
    /\ Len(outfile[1]) = Len(WrittenOrder) /\ Len(outfile[2]) = Len(WrittenOrder)
    /\ outfile[1][Col("lift")] # <<>> /\ outfile[2][Col("lift")] = <<>>
    /\ outfile[1][Col("lat")] = <<"4", "7", ".", "5">>
    /\ outfile[2][Col("lat")] = <<"4", "7", ".", "5">>

---------------------------------------------------------------------------
\* s[i..j] is digits with at most one sep inside, digits at both ends
NumberForm(s, i, j, sep) ==
    /\ i <= j
    /\ s[i] \in Digit /\ s[j] \in Digit
    /\ AllIn(s, i, j, Digit \cup {sep})
    /\ Cardinality({k \in i..j : s[k] = sep}) <= 1

\* the match of \d+,?\d+ said by its form: a number with at least two characters
PriceForm(s, i, j) == i < j /\ NumberForm(s, i, j, ",")

HasDigit(s) == \E k \in 1..Len(s) : s[k] \in Digit

\* every lookup the straight-line code makes finds what it needs: the fifth
\* meta tag and the title, the five fatal fields, a number in the price and in
\* the area text, a string in the balcony cell
Extractable(p) ==
    /\ ~IsNone(p.meta) /\ ~IsNone(p.title)
    /\ ~LacksFatal(p)
    /\ LET t == Val(FirstTextWith(p, FtWord)) IN Pieces(t, LAMBDA i, j : PriceForm(t, i, j)) # {}
    /\ HasDigit(Val(FirstTextWith(p, M2Word)))
    /\ \A k \in RowsWith(p, BalconyLabel) : ~IsNone(p.rows[k].value)

---------------------------------------------------------------------------
\* the amount of a price text with its separators (spaces, letters) removed
\* and the comma replaced by a period
FullAmount(t) ==
    Replace(SelectSeq(t, LAMBDA c : c \in Digit \cup {","}), <<",">>, <<".">>)

ItemPriceText == Val(FirstTextWith(Item, FtWord))

(* C8 as stated: the emitted price is the full amount of the first text    *)
(* with Ft, its digit-group separators removed and the comma replaced by a *)
(* period ("31 900 000 Ft" gives "31900000").                              *)
C8_PriceFullAmount ==
    [][(Taking /\ WroteOne) =>
        Last(outfile')[Col("price")] = FullAmount(ItemPriceText)]_vars

(* C8, first piece only: the emitted price is the leftmost, there the longest, *)
(* piece of the first text with Ft that is digits with at most one comma    *)
(* inside and at least two digits, the comma replaced by a period; a space  *)
(* ends the piece ("31 900 000 Ft" gives "31", "31,9 M Ft" gives "31.9");   *)
(* a text without such a piece raises and no row is written.                *)
C8_PriceFirstRun ==
    [][(Taking /\ Item.fetchOk /\ ~IsNone(FirstTextWith(Item, FtWord))) =>
        LET t == ItemPriceText
            Form(i, j) == PriceForm(t, i, j)
        IN  /\ Pieces(t, Form) = {} => Skipped
            /\ WroteOne =>
                /\ Pieces(t, Form) # {}
                /\ Last(outfile')[Col("price")] =
                       Replace(LeftLongest(t, Form), <<",">>, <<".">>)]_vars

\* "31 900 000 Ft" was written as 31
C8_GroupedPriceWritten ==
    /\ Len(input) = 1 /\ Len(outfile) = 1
    /\ FirstTextWith(input[1], FtWord) =
          Some(<<"3", "1", " ", "9", "0", "0", " ", "0", "0", "0", " ", "F", "t">>)
    /\ outfile[1][Col("price")] = <<"3", "1">>

---------------------------------------------------------------------------
\* the room text read as the claim reads it: after "+", spaces and at most one
\* digit, then "fel"; the count is the digit, 1 without a digit, 0 without
\* the part
HalfParts2(t) ==
    {ij \in (1..Len(t)) \X (1..Len(t)) :
        /\ ij[1] < ij[2] /\ ij[2] + 2 <= Len(t)
        /\ t[ij[1]] = "+"
        /\ SubSeq(t, ij[2], ij[2] + 2) = FelWord
        /\ AllIn(t, ij[1] + 1, ij[2] - 1, Digit \cup {" "})
        /\ Cardinality({k \in (ij[1] + 1)..(ij[2] - 1) : t[k] \in Digit}) <= 1}

StatedHalf(t) ==
    IF HalfParts2(t) = {} THEN <<"0">>
    ELSE LET ij == CHOOSE q \in HalfParts2(t) : TRUE
             m == SelectSeq(SubSeq(t, ij[1] + 1, ij[2] - 1), LAMBDA c : c \in Digit)
         IN  IF m = <<>> THEN <<"1">> ELSE m

StatedFull(t) ==
    LET ns == {n \in 1..Len(t) : AllIn(t, 1, n, Digit)}
    IN  IF ns = {} THEN <<"0">> ELSE SubSeq(t, 1, Max(ns))

(* C9: half_rooms is the stated digit M of "N + M fel", 1 for "+ fel" with *)
(* no count, 0 without a "+ fel" part, whatever the spacing between "+",   *)
(* the count and "fel"; full_rooms is the leading integer, or 0.           *)
C9_HalfRooms ==
    [][(Taking /\ WroteOne) =>
        LET t == Val(FirstTextWith(Item, SzobaWord))
        IN  /\ Last(outfile')[Col("halfrooms")] = StatedHalf(t)
            /\ Last(outfile')[Col("fullrooms")] = StatedFull(t)]_vars

---------------------------------------------------------------------------
\* the number of a balcony value: the leftmost, longest integer or decimal
StatedBalcony(p) ==
    IF RowsWith(p, BalconyLabel) = {} THEN <<>>
    ELSE LET v == Val(p.rows[Max(RowsWith(p, BalconyLabel))].value)
         IN  IF HasDigit(v) THEN LeftLongest(v, LAMBDA i, j : NumberForm(v, i, j, "."))
             ELSE <<"0">>

(* C10: with the balcony row present, balcony is the number its value      *)
(* contains (integer or decimal, of any digit count), and 0 exactly when   *)
(* the value contains no number; without the row it is empty and the       *)
(* record is still written.                                                *)
C10_Balcony ==
    [][(Taking /\ WroteOne) => Last(outfile')[Col("balcony")] = StatedBalcony(Item)]_vars

---------------------------------------------------------------------------
(* The Collector's pages said without the matcher *)

\* the href has a "/" followed by a digit
HasId(h) == \E i \in 1..(Len(h) - 1) : h[i] = "/" /\ h[i + 1] \in Digit

\* the digits after the first such "/"
IdOf(h) ==
    LET i == Min({k \in 1..(Len(h) - 1) : h[k] = "/" /\ h[k + 1] \in Digit})
        j == Max({k \in (i + 1)..Len(h) : AllIn(h, i + 1, k, Digit)})
    IN  SubSeq(h, i + 1, j)

PageMatches(page) == \A k \in 1..Len(page.anchors) : HasId(page.anchors[k])

\* the lines a page is to give: one per distinct listing, none when its fetch failed
LinesOf(page) ==
    IF page.fetchOk
    THEN {<<BaseUrl \o IdOf(page.anchors[k])>> : k \in 1..Len(page.anchors)}
    ELSE {}

RECURSIVE LinesBefore(_)
LinesBefore(k) ==
    IF k <= 1 THEN 0 ELSE LinesBefore(k - 1) + Cardinality(LinesOf(input[k - 1]))

Segment(k) == {outfile[m] : m \in (LinesBefore(k) + 1)..LinesBefore(k + 1)}

FailedPages == {k \in 1..npages : ~input[k].fetchOk}

\* the output is, page after page in ascending order, the lines of each page
PageOrdered ==
    /\ Len(outfile) = LinesBefore(npages + 1)
    /\ \A k \in 1..npages : Segment(k) = LinesOf(input[k])

(* C3: Collector, an href of a fetched page does not match /(\d+)#? : the   *)
(* page-level handler takes it: the error counter goes up, no URL of the    *)
(* page is written, and the run goes on with the next page.                 *)
C3_BadHrefHandled ==
    [][(Taking /\ Item.fetchOk /\ ~PageMatches(Item)) => Skipped]_vars

(* C5: Collector over pages 1..N with every href matching, the fetch of the *)
(* pages in F failing: the pages are taken one by one in ascending order,   *)
(* none twice; at the end the error count is |F|, no URL of a page in F is  *)
(* written and the URLs of page p precede those of page q for p < q.        *)
C5_PagesInOrder ==
    [][/\ idx' # idx => (pc = "loop" /\ idx < npages /\ idx' = idx + 1)
       /\ (pc' = "done" /\ \A k \in 1..npages : PageMatches(input[k])) =>
            /\ idx' = npages
            /\ err_count' = Cardinality(FailedPages)
            /\ printed' = Some(Cardinality(FailedPages))
            /\ PageOrdered']_vars

\* page 2 of three failed: the two URLs of page 1, then the URL of page 3
C5_FailedBetweenTwo ==
    /\ pc = "done"
    /\ npages = 3
    /\ FailedPages = {2}
    /\ input[1].anchors = <<Href7, Href12>> /\ input[3].anchors = <<Href12>>
    /\ Len(outfile) = 3
    /\ outfile[3] = <<BaseUrl \o <<"1", "2">>>>
    /\ printed = Some(1)

(* C6: Collector, every fetched page: each distinct listing URL of the page *)
(* is written exactly once for it, however many anchors give the same       *)
(* listing; a URL found on two pages is written once for each.              *)
C6_OncePerPage ==
    [][(Taking /\ Item.fetchOk /\ PageMatches(Item)) =>
        /\ Len(outfile') = Len(outfile) + Cardinality(LinesOf(Item))
        /\ SubSeq(outfile', 1, Len(outfile)) = outfile
        /\ {outfile'[m] : m \in (Len(outfile) + 1)..Len(outfile')} = LinesOf(Item)]_vars

\* two anchors of listing 12 on page 1, listing 12 again on page 2: its URL
\* is in the output twice, once for each page
C6_TwiceAcrossPages ==
    /\ idx = 2
    /\ input[1].fetchOk /\ input[1].anchors = <<Href12, Href12b>>
    /\ input[2].fetchOk /\ input[2].anchors = <<Href12>>
    /\ outfile = <<<<BaseUrl \o <<"1", "2">>>>, <<BaseUrl \o <<"1", "2">>>>>>

===========================================================================
